---- MODULE Spec2Model ----
(***************************************************************************)
(* Radio Calico rating subsystem: the SQLite rating store (db.js) and the  *)
(* Express rating routes (server.js).                                      *)
(*                                                                         *)
(* Every SQL statement of db.js is an operator on the tables, with the     *)
(* schema's NOT NULL and UNIQUE constraints checked where SQLite checks    *)
(* them.  song_ratings is a set of rows (the id column keeps rows apart);  *)
(* user_ratings is a bag of rows without its id column, which no statement *)
(* reads back (getUserRating selects rating_type, the existence check only *)
(* tests for a row).  The created_at and updated_at columns are left out:  *)
(* no statement of db.js or server.js reads them.                          *)
(*                                                                         *)
(* Three specifications:                                                   *)
(*   Spec       one server process; a route handler runs to completion     *)
(*              (better-sqlite3 is synchronous), so a request is one step. *)
(*   StoreSpec  the functions db.js exports, called directly with any      *)
(*              arguments (as the database layer tests call them).         *)
(*   ConcSpec   several server processes on the same database file: the    *)
(*              statements of addOrUpdateRating that are outside its       *)
(*              transaction interleave with the other processes' steps.    *)
(***************************************************************************)
EXTENDS Integers, FiniteSets, Sequences, Bags, TLC

\* song_ratings, user_ratings  the two tables of database.db
\* pc, req     per server process: where it is in addOrUpdateRating ("idle",
\*             "checked" after the existence check, "committed" after the
\*             transaction) and the request body it is handling (ConcSpec only)
\* last        the request answered last and its response
\* history     the votes whose transaction committed, as the callers passed them
VARIABLES song_ratings, user_ratings, pc, req, last, history

vars == <<song_ratings, user_ratings, pc, req, last, history>>

\* ------------------------------------------------------------------ bounds
\* Number of server processes sharing the database file in ConcSpec.
NumProcs == 2

Procs == 1..NumProcs

\* ------------------------------------------------------------------ values
\* JavaScript null / undefined (a field absent from the request body).
Null == "<null>"

SongKeys == {"k1", "k2"}
UserIds == {"u1", "u2"}
Artists == {"a1", "a2"}
Titles == {"t1"}
RatingTypes == {"up", "down"}

Body(k, a, t, r, u) == [songKey |-> k, artist |-> a, title |-> t, ratingType |-> r, userId |-> u]

NoBody == Body(Null, Null, Null, Null, Null)

\* Request bodies that pass the validation of POST /api/ratings.
ValidBodies == {Body(k, a, t, r, u) : k \in SongKeys, a \in Artists, t \in Titles, r \in RatingTypes, u \in UserIds}

\* Request bodies with fields missing (Null), empty or, for ratingType, outside the enum.
Defective(v) == v \in {Null, "", "sideways"}

Defects(b) == Cardinality({f \in DOMAIN b : Defective(b[f])})

DefectBodies ==
    {b \in {Body(k, a, t, r, u) : k \in {"k1", Null, ""}, a \in {"a1", Null, ""}, t \in {"t1", Null, ""},
                                  r \in {"up", "sideways", Null, ""}, u \in {"u1", Null, ""}} :
        \/ Defects(b) = 1
        \/ Defects(b) = 2 /\ b.ratingType = "sideways"}

\* Arguments of a direct call of addOrUpdateRating.
StoreArgs == {Body(k, a, t, r, u) : k \in {"k1", Null}, a \in {"a1", Null}, t \in {"t1"},
                                    r \in {"up", "down", "sideways", Null}, u \in {"u1", "u2", Null}}

\* Request bodies of the processes of ConcSpec.
ConcBodies == {Body("k1", "a1", "t1", r, u) : r \in RatingTypes, u \in UserIds} \cup {Body("k1", "a1", "t1", "sideways", "u1"), Body("k1", "a1", "t1", "up", Null)}

\* Where the storage engine itself fails (I/O error) during a store call.
Faults == {"none", "user_select", "upsert", "update", "insert", "song_select"}

\* ------------------------------------------------------------------ SQL
\* stmt.get() with no matching row.
Undefined == [undefined |-> TRUE]

IOError == "disk I/O error"
DuplicateVote == "User has already rated this song"
MissingFields == "Missing required fields"
InvalidRatingType == "Invalid rating type"
UniqueUserRating == "UNIQUE constraint failed: user_ratings.song_key, user_ratings.user_id"
UniqueSongKey == "UNIQUE constraint failed: song_ratings.song_key"
NotNullSongRating == "NOT NULL constraint failed: song_ratings"
NotNullUserRating == "NOT NULL constraint failed: user_ratings"

\* INTEGER PRIMARY KEY AUTOINCREMENT on a table nothing is deleted from.
NextId(table) == Cardinality(table) + 1

\* stmt.get() on song_ratings: the first matching row (lowest rowid), or undefined.
First(rows) == IF rows = {} THEN Undefined ELSE CHOOSE r \in rows : \A s \in rows : r.id <= s.id

\* SELECT * FROM song_ratings WHERE song_key = ?   (NULL = NULL matches nothing)
SelectSongRating(sr, k) == First({r \in sr : k # Null /\ r.song_key = k})

\* Mutant: the two bound parameters of the query in the wrong order.
UserRatingRowsSwapped(ur, k, u) == {r \in BagToSet(ur) : k # Null /\ u # Null /\ r.song_key = u /\ r.user_id = k}

\* The rows of user_ratings WHERE song_key = ? AND user_id = ?
UserRatingRows(ur, k, u) == {r \in BagToSet(ur) : k # Null /\ u # Null /\ r.song_key = k /\ r.user_id = u}

\* stmt.get() on user_ratings: a matching row, or undefined.
SelectUserRating(ur, k, u) ==
    IF UserRatingRows(ur, k, u) = {} THEN Undefined ELSE CHOOSE r \in UserRatingRows(ur, k, u) : TRUE

Ok(table) == [ok |-> TRUE, error |-> "", table |-> table]

Failed(table, msg) == [ok |-> FALSE, error |-> msg, table |-> table]

\* INSERT INTO song_ratings (song_key, artist, title, thumbs_up, thumbs_down) VALUES (?, ?, ?, 0, 0)
InsertSongRating(sr, k, a, t) ==
    IF k = Null \/ a = Null \/ t = Null THEN Failed(sr, NotNullSongRating)
    ELSE IF \E r \in sr : r.song_key = k THEN Failed(sr, UniqueSongKey)
    ELSE Ok(sr \cup {[id |-> NextId(sr), song_key |-> k, artist |-> a, title |-> t,
                      thumbs_up |-> 0, thumbs_down |-> 0]})

\* Mutant: the two counters the wrong way round.
FieldSwapped(r) == IF r = "up" THEN "thumbs_down" ELSE "thumbs_up"

\* const field = ratingType === 'up' ? 'thumbs_up' : 'thumbs_down'
Field(r) == IF r = "up" THEN "thumbs_up" ELSE "thumbs_down"

\* Mutant: the UPDATE without its WHERE clause.
UpdateSongRatingAllRows(sr, field, k) == {[r EXCEPT ![field] = @ + 1] : r \in sr}

\* Mutant: the UPDATE adds 1 to both counters.
UpdateSongRatingBoth(sr, field, k) ==
    {IF k # Null /\ r.song_key = k
     THEN [r EXCEPT !.thumbs_up = @ + 1, !.thumbs_down = @ + 1] ELSE r : r \in sr}

\* UPDATE song_ratings SET field = field + 1 WHERE song_key = ?
UpdateSongRating(sr, field, k) ==
    {IF k # Null /\ r.song_key = k THEN [r EXCEPT ![field] = @ + 1] ELSE r : r \in sr}

\* Mutant: user_ratings declared without UNIQUE(song_key, user_id).
InsertUserRatingNoUnique(ur, k, u, r) ==
    IF k = Null \/ u = Null \/ r = Null THEN Failed(ur, NotNullUserRating)
    ELSE Ok(ur (+) SetToBag({[song_key |-> k, user_id |-> u, rating_type |-> r]}))

\* Mutant: the rating_type written is 'up' whatever the vote.
InsertUserRatingAlwaysUp(ur, k, u, r) ==
    IF k = Null \/ u = Null \/ r = Null THEN Failed(ur, NotNullUserRating)
    ELSE IF \E x \in BagToSet(ur) : x.song_key = k /\ x.user_id = u THEN Failed(ur, UniqueUserRating)
    ELSE Ok(ur (+) SetToBag({[song_key |-> k, user_id |-> u, rating_type |-> "up"]}))

\* Mutant: INSERT OR REPLACE, which overwrites the user's earlier row for the song.
InsertUserRatingReplace(ur, k, u, r) ==
    IF k = Null \/ u = Null \/ r = Null THEN Failed(ur, NotNullUserRating)
    ELSE Ok(SetToBag({x \in BagToSet(ur) : ~(x.song_key = k /\ x.user_id = u)}
                     \cup {[song_key |-> k, user_id |-> u, rating_type |-> r]}))

\* INSERT INTO user_ratings (song_key, user_id, rating_type) VALUES (?, ?, ?)
InsertUserRating(ur, k, u, r) ==
    IF k = Null \/ u = Null \/ r = Null THEN Failed(ur, NotNullUserRating)
    ELSE IF \E x \in BagToSet(ur) : x.song_key = k /\ x.user_id = u THEN Failed(ur, UniqueUserRating)
    ELSE Ok(ur (+) SetToBag({[song_key |-> k, user_id |-> u, rating_type |-> r]}))

\* ------------------------------------------------------------------ db.js
\* What a store function gives its caller: a returned value or a thrown error.
Returned(v) == [threw |-> FALSE, error |-> "", value |-> v]

Threw(msg) == [threw |-> TRUE, error |-> msg, value |-> Undefined]

DefaultRatings == [thumbs_up |-> 0, thumbs_down |-> 0]

\* A table without rows.
EmptyTable(name) == IF name = "user_ratings" THEN EmptyBag ELSE {}

\* new Database('database.db') where there is no file yet: a database without tables.
NewFile == [tables |-> {}, song_ratings |-> EmptyTable("song_ratings"),
            user_ratings |-> EmptyTable("user_ratings")]

\* new Database('database.db') on the file an earlier run left.
Database(sr, ur) == [tables |-> {"song_ratings", "user_ratings"}, song_ratings |-> sr, user_ratings |-> ur]

\* Mutant: DROP TABLE IF EXISTS before CREATE TABLE.
CreateTableAfresh(db, name) ==
    [db EXCEPT !.tables = @ \cup {name}, ![name] = EmptyTable(name)]

\* CREATE TABLE IF NOT EXISTS
CreateTableIfNotExists(db, name) ==
    IF name \in db.tables THEN db
    ELSE [db EXCEPT !.tables = @ \cup {name}, ![name] = EmptyTable(name)]

\* initDB (the users table is no part of the ratings)
initDB(db) == CreateTableIfNotExists(CreateTableIfNotExists(db, "song_ratings"), "user_ratings")

\* stmt.get(songKey) || { thumbs_up: 0, thumbs_down: 0 }
OrDefault(row) == IF row = Undefined THEN DefaultRatings ELSE row

\* getSongRatings
getSongRatings(sr, k, fault) ==
    IF fault = "song_select" THEN Threw(IOError) ELSE Returned(OrDefault(SelectSongRating(sr, k)))

\* Mutant: the row's truthiness returned in place of its rating_type.
RatingTypeOfAnyRow(result) == IF result = Undefined THEN Null ELSE "up"

\* result ? result.rating_type : null
RatingTypeOf(result) == IF result = Undefined THEN Null ELSE result.rating_type

\* getUserRating
getUserRating(ur, k, u, fault) ==
    IF fault = "user_select" THEN Threw(IOError) ELSE Returned(RatingTypeOf(SelectUserRating(ur, k, u)))

\* The existence check of addOrUpdateRating, before its transaction.
existingRating(ur, k, u, fault) ==
    IF fault = "user_select" THEN Threw(IOError) ELSE Returned(SelectUserRating(ur, k, u))

\* Mutant: INSERT OR REPLACE, which puts a fresh row with zero counts in place of
\* the song's row.
UpsertStepReplace(sr, k, a, t, fault) ==
    IF fault = "upsert" THEN Failed(sr, IOError)
    ELSE InsertSongRating({r \in sr : r.song_key # k}, k, a, t)

\* Get or create the song's row.
UpsertStep(sr, k, a, t, fault) ==
    IF fault = "upsert" THEN Failed(sr, IOError)
    ELSE IF SelectSongRating(sr, k) = Undefined THEN InsertSongRating(sr, k, a, t)
    ELSE Ok(sr)

\* Update the rating count, on the table the upsert left.
UpdateStep(created, k, r, fault) ==
    IF ~created.ok THEN created
    ELSE IF fault = "update" THEN Failed(created.table, IOError)
    ELSE Ok(UpdateSongRating(created.table, Field(r), k))

\* Record the user's rating, when the statements before it went through.
InsertStep(counted, ur, k, u, r, fault) ==
    IF ~counted.ok THEN Failed(ur, counted.error)
    ELSE IF fault = "insert" THEN Failed(ur, IOError)
    ELSE InsertUserRating(ur, k, u, r)

\* Mutant: the statements run outside a transaction, so a failure keeps what
\* the earlier statements wrote.
NoRollback(before, working) == working

\* db.transaction(fn)(): when fn throws, the engine restores the tables as they
\* were when the transaction began.
Rollback(before, working) == before

\* db.transaction(fn)(): commit what fn wrote, or roll back and rethrow.
CommitOrRollback(sr, ur, counted, recorded) ==
    IF recorded.ok
    THEN [threw |-> FALSE, error |-> "", sr |-> counted.table, ur |-> recorded.table]
    ELSE [threw |-> TRUE, error |-> recorded.error,
          sr |-> Rollback(sr, counted.table), ur |-> Rollback(ur, recorded.table)]

RecordAndCommit(sr, ur, counted, k, u, r, fault) ==
    CommitOrRollback(sr, ur, counted, InsertStep(counted, ur, k, u, r, fault))

\* The transaction of addOrUpdateRating.
Transaction(sr, ur, k, a, t, r, u, fault) ==
    RecordAndCommit(sr, ur, UpdateStep(UpsertStep(sr, k, a, t, fault), k, r, fault), k, u, r, fault)

\* return getSongRatings(songKey), after the transaction went through.
ReturnRatings(txn, k, fault) ==
    IF txn.threw THEN [out |-> Threw(txn.error), sr |-> txn.sr, ur |-> txn.ur, committed |-> FALSE]
    ELSE [out |-> getSongRatings(txn.sr, k, fault), sr |-> txn.sr, ur |-> txn.ur, committed |-> TRUE]

\* if (existingRating) return { error: ... }, else the transaction.
CheckThenWrite(check, sr, ur, k, a, t, r, u, fault) ==
    IF check.threw THEN [out |-> Threw(check.error), sr |-> sr, ur |-> ur, committed |-> FALSE]
    ELSE IF check.value # Undefined
    THEN [out |-> Returned([error |-> DuplicateVote]), sr |-> sr, ur |-> ur, committed |-> FALSE]
    ELSE ReturnRatings(Transaction(sr, ur, k, a, t, r, u, fault), k, fault)

\* addOrUpdateRating, run to completion: what it gives its caller, the tables
\* it leaves, and whether its transaction committed.
addOrUpdateRating(sr, ur, k, a, t, r, u, fault) ==
    CheckThenWrite(existingRating(ur, k, u, fault), sr, ur, k, a, t, r, u, fault)

\* ------------------------------------------------------------------ server.js
\* Mutant: only an absent field counts as missing (field === undefined).
FalsyOnlyUndefined(v) == v = Null

Falsy(v) == v = Null \/ v = ""

HasError(result) == "error" \in DOMAIN result

\* The request handled last and the response it was given.
Response(op, body, status, json) == [op |-> op, req |-> body, status |-> status, body |-> json]

\* catch (error) { res.status(500).json({ error: error.message }) }
ServerError(op, body, msg) == Response(op, body, 500, [error |-> msg])

Vote(body) == [song_key |-> body.songKey, user_id |-> body.userId, rating_type |-> body.ratingType]

\* Mutant: the ratingType enum is not checked.
ValidateWithoutEnum(body) ==
    IF Falsy(body.songKey) \/ Falsy(body.artist) \/ Falsy(body.title)
       \/ Falsy(body.ratingType) \/ Falsy(body.userId) THEN MissingFields
    ELSE ""

\* Mutant: userId is not among the required fields.
ValidateWithoutUserId(body) ==
    IF Falsy(body.songKey) \/ Falsy(body.artist) \/ Falsy(body.title) \/ Falsy(body.ratingType)
    THEN MissingFields
    ELSE IF body.ratingType # "up" /\ body.ratingType # "down" THEN InvalidRatingType
    ELSE ""

\* The validation of POST /api/ratings: "" when the body passes, else the message.
Validate(body) ==
    IF Falsy(body.songKey) \/ Falsy(body.artist) \/ Falsy(body.title)
       \/ Falsy(body.ratingType) \/ Falsy(body.userId) THEN MissingFields
    ELSE IF body.ratingType # "up" /\ body.ratingType # "down" THEN InvalidRatingType
    ELSE ""

Init ==
    /\ song_ratings = initDB(NewFile).song_ratings
    /\ user_ratings = initDB(NewFile).user_ratings
    /\ pc = [p \in Procs |-> "idle"]
    /\ req = [p \in Procs |-> NoBody]
    /\ last = Response("none", NoBody, 0, Undefined)
    /\ history = {}

\* res.json(ratings), or the catch block
RatingsResponse(body, ratings) ==
    IF ratings.threw THEN ServerError("GET ratings", body, ratings.error)
    ELSE Response("GET ratings", body, 200, ratings.value)

\* GET /api/ratings/:songKey
GetRatings(k, fault) ==
    /\ last' = RatingsResponse(Body(k, Null, Null, Null, Null), getSongRatings(song_ratings, k, fault))
    /\ UNCHANGED <<song_ratings, user_ratings, pc, req, history>>

\* Mutant: hasRated: !rating.
UserRatingResponseNegated(body, rating) ==
    IF rating.threw THEN ServerError("GET user rating", body, rating.error)
    ELSE Response("GET user rating", body, 200, [hasRated |-> rating.value = Null, ratingType |-> rating.value])

\* res.json({ hasRated: !!rating, ratingType: rating }), or the catch block
UserRatingResponse(body, rating) ==
    IF rating.threw THEN ServerError("GET user rating", body, rating.error)
    ELSE Response("GET user rating", body, 200, [hasRated |-> rating.value # Null, ratingType |-> rating.value])

\* GET /api/ratings/:songKey/user/:userId
GetUserRatingRoute(k, u, fault) ==
    /\ last' = UserRatingResponse(Body(k, Null, Null, Null, u), getUserRating(user_ratings, k, u, fault))
    /\ UNCHANGED <<song_ratings, user_ratings, pc, req, history>>

\* if (result.error) 400, else 200; the catch block answers 500
VoteResponse(body, out) ==
    IF out.threw THEN ServerError("POST ratings", body, out.error)
    ELSE IF HasError(out.value) THEN Response("POST ratings", body, 400, out.value)
    ELSE Response("POST ratings", body, 200, out.value)

Voted(body, result) ==
    /\ song_ratings' = result.sr
    /\ user_ratings' = result.ur
    /\ history' = IF result.committed THEN history \cup {Vote(body)} ELSE history
    /\ last' = VoteResponse(body, result.out)
    /\ UNCHANGED <<pc, req>>

Rejected(body, invalid) ==
    /\ last' = Response("POST ratings", body, 400, [error |-> invalid])
    /\ UNCHANGED <<song_ratings, user_ratings, pc, req, history>>

\* POST /api/ratings
PostRatings(body, fault) ==
    IF Validate(body) # "" THEN Rejected(body, Validate(body))
    ELSE Voted(body, addOrUpdateRating(song_ratings, user_ratings, body.songKey, body.artist,
                                       body.title, body.ratingType, body.userId, fault))

\* The server process is stopped and started again on the same database file.
Restart ==
    /\ song_ratings' = initDB(Database(song_ratings, user_ratings)).song_ratings
    /\ user_ratings' = initDB(Database(song_ratings, user_ratings)).user_ratings
    /\ pc' = [p \in Procs |-> "idle"]
    /\ req' = [p \in Procs |-> NoBody]
    /\ last' = Response("restart", NoBody, 0, Undefined)
    /\ UNCHANGED history

Next ==
    \/ Restart
    \/ \E k \in SongKeys, fault \in {"none", "song_select"} : GetRatings(k, fault)
    \/ \E k \in SongKeys, u \in UserIds, fault \in {"none", "user_select"} : GetUserRatingRoute(k, u, fault)
    \/ \E body \in DefectBodies : PostRatings(body, "none")
    \/ \E body \in ValidBodies, fault \in Faults : PostRatings(body, fault)

Spec == Init /\ [][Next]_vars

\* ------------------------------------------------------------------ db.js called directly
\* What a direct caller of a store function sees.
CallResult(op, args, out) ==
    IF out.threw THEN Response(op, args, "threw", [error |-> out.error])
    ELSE Response(op, args, "returned", out.value)

CallGetSongRatings(k, fault) ==
    /\ last' = CallResult("getSongRatings", Body(k, Null, Null, Null, Null), getSongRatings(song_ratings, k, fault))
    /\ UNCHANGED <<song_ratings, user_ratings, pc, req, history>>

CallGetUserRating(k, u, fault) ==
    /\ last' = CallResult("getUserRating", Body(k, Null, Null, Null, u), getUserRating(user_ratings, k, u, fault))
    /\ UNCHANGED <<song_ratings, user_ratings, pc, req, history>>

Called(args, result) ==
    /\ song_ratings' = result.sr
    /\ user_ratings' = result.ur
    /\ history' = IF result.committed THEN history \cup {Vote(args)} ELSE history
    /\ last' = CallResult("addOrUpdateRating", args, result.out)
    /\ UNCHANGED <<pc, req>>

CallAddOrUpdateRating(args, fault) ==
    Called(args, addOrUpdateRating(song_ratings, user_ratings, args.songKey, args.artist,
                                   args.title, args.ratingType, args.userId, fault))

StoreNext ==
    \/ \E k \in {"k1", Null}, fault \in {"none", "song_select"} : CallGetSongRatings(k, fault)
    \/ \E k \in {"k1", Null}, u \in {"u1", "u2", Null}, fault \in {"none", "user_select"} : CallGetUserRating(k, u, fault)
    \/ \E args \in StoreArgs, fault \in Faults : CallAddOrUpdateRating(args, fault)

StoreSpec == Init /\ [][StoreNext]_vars

\* ------------------------------------------------------------------ several server processes
\* Process p receives a POST /api/ratings, validates it and runs the existence check.
Checked(p, body, check) ==
    IF check.threw
    THEN /\ last' = ServerError("POST ratings", body, check.error)
         /\ UNCHANGED <<song_ratings, user_ratings, pc, req, history>>
    ELSE IF check.value # Undefined
    THEN /\ last' = Response("POST ratings", body, 400, [error |-> DuplicateVote])
         /\ UNCHANGED <<song_ratings, user_ratings, pc, req, history>>
    ELSE /\ pc' = [pc EXCEPT ![p] = "checked"]
         /\ req' = [req EXCEPT ![p] = body]
         /\ UNCHANGED <<song_ratings, user_ratings, last, history>>

Receive(p, body, fault) ==
    /\ pc[p] = "idle"
    /\ IF Validate(body) # "" THEN Rejected(body, Validate(body))
       ELSE Checked(p, body, existingRating(user_ratings, body.songKey, body.userId, fault))

\* Process p runs the transaction of addOrUpdateRating.
Transacted(p, txn) ==
    /\ song_ratings' = txn.sr
    /\ user_ratings' = txn.ur
    /\ IF txn.threw
       THEN /\ last' = ServerError("POST ratings", req[p], txn.error)
            /\ pc' = [pc EXCEPT ![p] = "idle"]
            /\ req' = [req EXCEPT ![p] = NoBody]
            /\ UNCHANGED history
       ELSE /\ history' = history \cup {Vote(req[p])}
            /\ pc' = [pc EXCEPT ![p] = "committed"]
            /\ UNCHANGED <<req, last>>

Txn(p, fault) ==
    /\ pc[p] = "checked"
    /\ Transacted(p, Transaction(song_ratings, user_ratings, req[p].songKey, req[p].artist,
                                 req[p].title, req[p].ratingType, req[p].userId, fault))

\* Process p reads the ratings back and answers.
ReadBack(p, fault) ==
    /\ pc[p] = "committed"
    /\ last' = VoteResponse(req[p], getSongRatings(song_ratings, req[p].songKey, fault))
    /\ pc' = [pc EXCEPT ![p] = "idle"]
    /\ req' = [req EXCEPT ![p] = NoBody]
    /\ UNCHANGED <<song_ratings, user_ratings, history>>

ConcNext ==
    \/ \E fault \in {"none", "song_select"} : GetRatings("k1", fault)
    \/ \E u \in UserIds, fault \in {"none", "user_select"} : GetUserRatingRoute("k1", u, fault)
    \/ \E p \in Procs, body \in ConcBodies, fault \in {"none", "user_select"} : Receive(p, body, fault)
    \/ \E p \in Procs, fault \in {"none", "upsert", "update", "insert"} : Txn(p, fault)
    \/ \E p \in Procs, fault \in {"none", "song_select"} : ReadBack(p, fault)

ConcSpec == Init /\ [][ConcNext]_vars

\* ------------------------------------------------------------------ the song key
\* The longest artist and the longest title drawn from the pipe and a letter.
MaxLen == 3

\* '=' of the Base64 alphabet, after its 64 digits 0..63.
Pad == 64

\* Strings are sequences of code units: 65 is 'A', 124 is '|', 233 is a Latin-1
\* letter above the ASCII range and 8364 is a character outside Latin-1.
Texts == UNION {[1..n -> {65, 124}] : n \in 0..MaxLen} \cup {<<233>>, <<8364>>}

\* The artist and title of the song on air.
Songs == [artist : Texts, title : Texts]

\* '|||'
Separator == <<124, 124, 124>>

InvalidCharacter == "InvalidCharacterError"

\* Mutant: a separator of two pipes.
SongKeyTextTwoPipes(artist, title) == artist \o <<124, 124>> \o title

\* `${artist}|||${title}`
SongKeyText(artist, title) == artist \o Separator \o title

RECURSIVE Base64Encode(_)
\* Three bytes become four 6-bit digits; one or two last bytes are padded.
Base64Encode(s) ==
    IF Len(s) = 0 THEN <<>>
    ELSE IF Len(s) = 1 THEN <<s[1] \div 4, (s[1] % 4) * 16, Pad, Pad>>
    ELSE IF Len(s) = 2
    THEN <<s[1] \div 4, (s[1] % 4) * 16 + s[2] \div 16, (s[2] % 16) * 4, Pad>>
    ELSE <<s[1] \div 4, (s[1] % 4) * 16 + s[2] \div 16, (s[2] % 16) * 4 + s[3] \div 64, s[3] % 64>>
         \o Base64Encode(SubSeq(s, 4, Len(s)))

\* btoa: Base64 of a string of code units up to 255, else InvalidCharacterError.
btoa(s) ==
    IF \E i \in 1..Len(s) : s[i] > 255 THEN Threw(InvalidCharacter)
    ELSE Returned(Base64Encode(s))

RECURSIVE Base64Decode(_)
\* Four digits become three bytes; a padded group gives one or two.
Base64Decode(k) ==
    IF Len(k) = 0 THEN <<>>
    ELSE IF k[3] = Pad THEN <<k[1] * 4 + k[2] \div 16>>
    ELSE IF k[4] = Pad THEN <<k[1] * 4 + k[2] \div 16, (k[2] % 16) * 16 + k[3] \div 4>>
    ELSE <<k[1] * 4 + k[2] \div 16, (k[2] % 16) * 16 + k[3] \div 4, (k[3] % 4) * 64 + k[4]>>
         \o Base64Decode(SubSeq(k, 5, Len(k)))

\* atob
atob(k) == Returned(Base64Decode(k))

\* s.indexOf('|||'), counted from 1; 0 when there is none.
IndexOf(s) ==
    IF \E i \in 1..Len(s) - 2 : SubSeq(s, i, i + 2) = Separator
    THEN CHOOSE i \in 1..Len(s) - 2 :
            /\ SubSeq(s, i, i + 2) = Separator
            /\ \A j \in 1..i - 1 : SubSeq(s, j, j + 2) # Separator
    ELSE 0

RECURSIVE SplitAt(_, _)
\* s.split('|||'): the pieces between the occurrences found from left to right.
SplitAt(s, i) ==
    IF i = 0 THEN <<s>>
    ELSE <<SubSeq(s, 1, i - 1)>>
         \o SplitAt(SubSeq(s, i + 3, Len(s)), IndexOf(SubSeq(s, i + 3, Len(s))))

split(s) == SplitAt(s, IndexOf(s))

\* The key of a song, as the frontend builds it.
SongKey(song) == btoa(SongKeyText(song.artist, song.title))

KeyInit ==
    /\ song_ratings = initDB(NewFile).song_ratings
    /\ user_ratings = initDB(NewFile).user_ratings
    /\ pc = [p \in Procs |-> "idle"]
    /\ req = [p \in Procs |-> NoBody]
    /\ history = {}
    /\ \E song \in Songs : last = Response("song", song, "returned", Undefined)

\* The frontend builds the song key.
Encode ==
    /\ last.op = "song"
    /\ last' = CallResult("btoa", last.req, SongKey(last.req))
    /\ UNCHANGED <<song_ratings, user_ratings, pc, req, history>>

\* The key is decoded.
Decode ==
    /\ last.op = "btoa"
    /\ last.status = "returned"
    /\ last' = CallResult("atob", last.req, atob(last.body))
    /\ UNCHANGED <<song_ratings, user_ratings, pc, req, history>>

\* The decoded text is split on the separator.
Split ==
    /\ last.op = "atob"
    /\ last' = CallResult("split", last.req, Returned(split(last.body)))
    /\ UNCHANGED <<song_ratings, user_ratings, pc, req, history>>

KeyNext == Encode \/ Decode \/ Split

KeySpec == KeyInit /\ [][KeyNext]_vars

\* ------------------------------------------------------------------ properties
\* The storage engine itself failed while the request was handled.
StorageFailed(resp) == HasError(resp.body) /\ resp.body.error = IOError

\* The successful votes (committed transactions) of user u on song k so far.
VotesBy(k, u) == {v \in history : v.song_key = k /\ v.user_id = u}

\* The counts getSongRatings gives for song k.
Counts(sr, k) ==
    [thumbs_up |-> OrDefault(SelectSongRating(sr, k)).thumbs_up,
     thumbs_down |-> OrDefault(SelectSongRating(sr, k)).thumbs_down]

\* The number of vote records of user u on song k.
VoteRecords(ur, k, u) == BagCardinality([r \in UserRatingRows(ur, k, u) |-> ur[r]])

\* C1: once a vote of a user on a song has succeeded, every later valid POST
\* /api/ratings for the same song and user, whatever its ratingType, is answered
\* 400 with the duplicate-vote error (unless the storage engine itself fails), and
\* leaves the song's counts as they were.
C1_DuplicateVoteRejected ==
    [][(/\ last'.op = "POST ratings"
        /\ Validate(last'.req) = ""
        /\ VotesBy(last'.req.songKey, last'.req.userId) # {})
       => /\ Counts(song_ratings', last'.req.songKey) = Counts(song_ratings, last'.req.songKey)
          /\ user_ratings' = user_ratings
          /\ ~StorageFailed(last') =>
                last'.status = 400 /\ last'.body = [error |-> DuplicateVote]]_vars

\* A second vote of the same user on the same song, with the other ratingType, was refused.
C1_Witness ==
    /\ last.op = "POST ratings"
    /\ last.status = 400
    /\ last.body = [error |-> DuplicateVote]
    /\ \E v \in VotesBy(last.req.songKey, last.req.userId) : v.rating_type # last.req.ratingType

\* C2: in every state, whatever the interleaving of the processes' requests,
\* user_ratings holds at most one row per (song_key, user_id) and song_ratings at
\* most one row per song_key.
C2_UniqueRows ==
    /\ \A r \in BagToSet(user_ratings) : VoteRecords(user_ratings, r.song_key, r.user_id) = 1
    /\ \A r1, r2 \in song_ratings : r1.song_key = r2.song_key => r1 = r2

\* Two processes passed the existence check for the same song and user, one
\* committed and the other's insert was refused by the UNIQUE constraint.
C2_Witness ==
    /\ last.op = "POST ratings"
    /\ last.status = 500
    /\ last.body = [error |-> UniqueUserRating]
    /\ VoteRecords(user_ratings, last.req.songKey, last.req.userId) = 1

\* The number of vote records on song k.
SongVoteRecords(ur, k) == BagCardinality([r \in {x \in BagToSet(ur) : x.song_key = k} |-> ur[r]])

\* The users with a successful vote on song k so far.
Voters(k) == {v.user_id : v \in {x \in history : x.song_key = k}}

\* Every counted vote is recorded and every recorded vote is counted.
CountsMatchRecords ==
    /\ \A row \in song_ratings : row.thumbs_up + row.thumbs_down = SongVoteRecords(user_ratings, row.song_key)
    /\ \A r \in BagToSet(user_ratings) : \E row \in song_ratings : row.song_key = r.song_key

\* The transaction of the call addOrUpdateRating(args) fails when the storage fault is f.
TransactionFails(args, f) ==
    /\ ~existingRating(user_ratings, args.songKey, args.userId, f).threw
    /\ existingRating(user_ratings, args.songKey, args.userId, f).value = Undefined
    /\ Transaction(song_ratings, user_ratings, args.songKey, args.artist, args.title,
                   args.ratingType, args.userId, f).threw

\* C3: addOrUpdateRating is all-or-nothing.  When a statement of its transaction
\* fails (the aggregate insert, the counter update or the vote insert; a
\* constraint violation, a null argument or a storage fault), the call throws and
\* both tables are as they were before the call; and in every state each song's
\* counters add up to the number of its vote records, and every vote record has
\* its aggregate row.
C3_AllOrNothing ==
    /\ []CountsMatchRecords
    /\ [][\A f \in Faults :
            (CallAddOrUpdateRating(last'.req, f) /\ TransactionFails(last'.req, f))
            => /\ last'.status = "threw"
               /\ song_ratings' = song_ratings
               /\ user_ratings' = user_ratings]_vars

\* A call with a null userId threw at its last statement, the vote insert, after
\* it had created the song's row and counted the vote: nothing of it is left.
C3_Witness ==
    /\ last.op = "addOrUpdateRating"
    /\ last.status = "threw"
    /\ last.body = [error |-> NotNullUserRating]
    /\ last.req.songKey = "k1"
    /\ last.req.userId = Null
    /\ song_ratings = {}

\* C4: two concurrent votes of the same user on the same song do not both write.
\* In every state each song's thumbs_up + thumbs_down is the number of users with
\* a successful vote on it and there is exactly one vote record per such user:
\* when both requests passed the existence check, the total has grown by one.
C4_ConcurrentVotesCountOnce ==
    \A k \in SongKeys :
        /\ Counts(song_ratings, k).thumbs_up + Counts(song_ratings, k).thumbs_down = Cardinality(Voters(k))
        /\ \A u \in UserIds : VoteRecords(user_ratings, k, u) = (IF u \in Voters(k) THEN 1 ELSE 0)

\* Both processes passed the existence check for the same song and user, and
\* both have finished: one vote is counted and recorded.
C4_Witness ==
    /\ \A p \in Procs : pc[p] = "idle"
    /\ last.op = "POST ratings"
    /\ last.body = [error |-> UniqueUserRating]
    /\ Counts(song_ratings, last.req.songKey).thumbs_up + Counts(song_ratings, last.req.songKey).thumbs_down = 1
    /\ VoteRecords(user_ratings, last.req.songKey, last.req.userId) = 1

\* The vote of the request answered last is recorded already.
Recorded(resp) == UserRatingRows(user_ratings, resp.req.songKey, resp.req.userId) # {}

\* C5: every valid POST /api/ratings refused because a vote of the same user on
\* the same song is recorded, also when a concurrent request recorded it between
\* this request's existence check and its insert, is answered 400 with the
\* duplicate-vote message, never 500.
C5_DuplicateAlways400 ==
    (/\ last.op = "POST ratings"
     /\ Validate(last.req) = ""
     /\ last.status # 200
     /\ ~StorageFailed(last)
     /\ Recorded(last))
    => last.status = 400 /\ last.body = [error |-> DuplicateVote]

\* The successful votes on song k so far with ratingType r.
VotesOf(k, r) == {v \in history : v.song_key = k /\ v.rating_type = r}

\* What the successful votes on song k so far add up to.
Tally(k) == [thumbs_up |-> Cardinality(VotesOf(k, "up")), thumbs_down |-> Cardinality(VotesOf(k, "down"))]

\* C6: after successful votes of distinct users on a song, U of them 'up' and D
\* 'down' in any order, getSongRatings gives thumbs_up = U and thumbs_down = D for
\* the song, and so does the aggregate a successful POST /api/ratings returns.
C6_CountsAreTallies ==
    /\ \A k \in SongKeys : Counts(song_ratings, k) = Tally(k)
    /\ (last.op = "POST ratings" /\ last.status = 200)
       => /\ last.body.thumbs_up = Tally(last.req.songKey).thumbs_up
          /\ last.body.thumbs_down = Tally(last.req.songKey).thumbs_down

\* A 'down' vote was answered {1, 1}: one user voted up, another down.
C6_Witness ==
    /\ last.op = "POST ratings"
    /\ last.status = 200
    /\ last.req.ratingType = "down"
    /\ last.body.thumbs_up = 1
    /\ last.body.thumbs_down = 1

OthersPresent(body) ==
    ~(Falsy(body.songKey) \/ Falsy(body.artist) \/ Falsy(body.title) \/ Falsy(body.userId))

\* A POST /api/ratings answered 400 with msg that left the store alone.
RefusedUntouched(msg) ==
    /\ last'.status = 400
    /\ last'.body = [error |-> msg]
    /\ UNCHANGED <<song_ratings, user_ratings, history>>

\* C9 as stated: a POST /api/ratings whose ratingType is any value other than
\* 'up' or 'down', the other fields present, is answered 400 'Invalid rating type'.
C9_AnyOtherValueIsInvalidType ==
    (/\ last.op = "POST ratings"
     /\ OthersPresent(last.req)
     /\ last.req.ratingType \notin {"up", "down", Null})
    => last.status = 400 /\ last.body = [error |-> InvalidRatingType]

\* C9, amended: a POST /api/ratings whose ratingType is a non-empty value other
\* than 'up' or 'down', the other fields present, is answered 400 'Invalid rating
\* type' and changes neither table.
C9_InvalidTypeRefused ==
    [][(/\ last'.op = "POST ratings"
        /\ OthersPresent(last'.req)
        /\ ~Falsy(last'.req.ratingType)
        /\ last'.req.ratingType \notin {"up", "down"})
       => RefusedUntouched(InvalidRatingType)]_vars

\* 'sideways' was refused after votes had been stored.
C9_Witness ==
    /\ last.op = "POST ratings"
    /\ last.req.ratingType = "sideways"
    /\ last.status = 400
    /\ last.body = [error |-> InvalidRatingType]
    /\ song_ratings # {}

\* C10: a POST /api/ratings that lacks songKey, artist, title, ratingType or
\* userId is answered 400 'Missing required fields' and changes neither table.
C10_MissingFieldRefused ==
    [][(/\ last'.op = "POST ratings"
        /\ \E f \in DOMAIN last'.req : last'.req[f] = Null)
       => RefusedUntouched(MissingFields)]_vars

\* A body without userId, on a song that already has votes, was refused.
C10_Witness ==
    /\ last.op = "POST ratings"
    /\ last.req.userId = Null
    /\ Defects(last.req) = 1
    /\ last.status = 400
    /\ last.body = [error |-> MissingFields]
    /\ \E row \in song_ratings : row.song_key = last.req.songKey

\* C11: in every step, whatever the request and however it ends, every row of
\* song_ratings is still there afterwards, for the same song_key, with
\* thumbs_up and thumbs_down at least what they were.
C11_CountsNeverDecrease ==
    [][\A row \in song_ratings :
          \E next \in song_ratings' :
              /\ next.song_key = row.song_key
              /\ next.thumbs_up >= row.thumbs_up
              /\ next.thumbs_down >= row.thumbs_down]_vars

\* A vote failed on a storage fault after the song had collected an up and a
\* down vote, and the song's row still shows both.
C11_Witness ==
    /\ last.op = "POST ratings"
    /\ last.status = 500
    /\ \E row \in song_ratings :
          row.song_key = last.req.songKey /\ row.thumbs_up = 1 /\ row.thumbs_down = 1

\* C12: in every step, whatever the request (a duplicate carrying the opposite
\* ratingType included) and whichever process takes it, every row of
\* user_ratings is still there afterwards with the same rating_type, and it is
\* the only row of its (song_key, user_id).
C12_VoteRecordsAreImmutable ==
    [][\A row \in BagToSet(user_ratings) :
          /\ UserRatingRows(user_ratings', row.song_key, row.user_id) = {row}
          /\ CopiesIn(row, user_ratings') = CopiesIn(row, user_ratings)]_vars

\* A duplicate with the opposite ratingType was refused and the record still
\* holds the first ratingType.
C12_Witness ==
    /\ last.op = "POST ratings"
    /\ last.status = 400
    /\ last.body = [error |-> DuplicateVote]
    /\ \E row \in UserRatingRows(user_ratings, last.req.songKey, last.req.userId) :
          row.rating_type # last.req.ratingType

\* The counts after one more vote of type r.
Incremented(counts, r) ==
    IF r = "up" THEN [counts EXCEPT !.thumbs_up = @ + 1]
    ELSE [counts EXCEPT !.thumbs_down = @ + 1]

\* The two counts of a row or of a response body.
CountsOf(row) == [thumbs_up |-> row.thumbs_up, thumbs_down |-> row.thumbs_down]

\* C13: a POST /api/ratings answered 200 carries the song's counts from before
\* the call with the voted counter one higher and the other as it was, and
\* getSongRatings gives the same counts right after the call.
C13_ReturnsPostIncrementCounts ==
    [][(last'.op = "POST ratings" /\ last'.status = 200)
       => /\ CountsOf(last'.body)
                = Incremented(Counts(song_ratings, last'.req.songKey), last'.req.ratingType)
          /\ getSongRatings(song_ratings', last'.req.songKey, "none") = Returned(last'.body)]_vars

\* An up vote on a song that already had a down vote was answered with 1 and 1.
C13_Witness ==
    /\ last.op = "POST ratings"
    /\ last.status = 200
    /\ last.req.ratingType = "up"
    /\ CountsOf(last.body) = [thumbs_up |-> 1, thumbs_down |-> 1]

\* C14: a request of any of the three endpoints whose store call throws is
\* answered 500 with the thrown error's message, and song_ratings and
\* user_ratings are after it what they were before it.
C14_FailedRequestChangesNothing ==
    [][last'.status = 500
       => /\ last'.body = [error |-> IOError]
          /\ UNCHANGED <<song_ratings, user_ratings>>]_vars

\* The answer GET /api/ratings/:songKey/user/:userId owes for the rows of the
\* song and user: hasRated exactly when there is a row, with the row's
\* rating_type, else null.
UserVoteOf(rows) ==
    IF rows = {} THEN [hasRated |-> FALSE, ratingType |-> Null]
    ELSE [hasRated |-> TRUE, ratingType |-> (CHOOSE row \in rows : TRUE).rating_type]

\* C15: unless the storage engine fails, GET /api/ratings/:songKey/user/:userId
\* is answered 200 for every song and user, with hasRated true exactly when
\* user_ratings holds a row for them, ratingType that row's rating_type when
\* there is one and null when there is none.
C15_UserVoteReadsTheRecord ==
    (last.op = "GET user rating" /\ ~StorageFailed(last))
    => /\ last.status = 200
       /\ last.body = UserVoteOf(UserRatingRows(user_ratings, last.req.songKey, last.req.userId))

\* A user's vote was read back as down while another user of the same song had
\* voted up.
C15_Witness ==
    /\ last.op = "GET user rating"
    /\ last.body = [hasRated |-> TRUE, ratingType |-> "down"]
    /\ \E row \in BagToSet(user_ratings) :
          /\ row.song_key = last.req.songKey
          /\ row.user_id # last.req.userId
          /\ row.rating_type = "up"

\* The text holds the three pipes in a row.
HasSeparator(s) == IndexOf(s) # 0

\* The text ends with a pipe.
EndsWithPipe(s) == Len(s) > 0 /\ s[Len(s)] = 124

\* The text is one btoa takes.
Latin1(s) == \A i \in 1..Len(s) : s[i] <= 255

\* C16 as stated: for every artist and title without the full separator in
\* either, the key decoded and split on the separator is the artist and the
\* title.
C16_EveryPairRoundTrips ==
    (/\ last.op = "split"
     /\ ~HasSeparator(last.req.artist)
     /\ ~HasSeparator(last.req.title))
    => last.body = <<last.req.artist, last.req.title>>

\* The pairs the key gives back: Latin-1 texts, no separator in either, the
\* artist not ending with a pipe.
Splittable(song) ==
    /\ Latin1(song.artist) /\ Latin1(song.title)
    /\ ~HasSeparator(song.artist) /\ ~HasSeparator(song.title)
    /\ ~EndsWithPipe(song.artist)

\* C16: for an artist and a title of Latin-1 characters, neither holding the
\* full separator and the artist not ending with a pipe, btoa gives a key, the
\* key decoded and split on the separator is exactly the artist and the title,
\* and no other such pair has the same key.
C16_SplittablePairRoundTrips ==
    (last.op \in {"btoa", "atob", "split"} /\ Splittable(last.req))
    => /\ last.status = "returned"
       /\ last.op = "atob" => last.body = SongKeyText(last.req.artist, last.req.title)
       /\ last.op = "split" => last.body = <<last.req.artist, last.req.title>>
       /\ last.op = "btoa" =>
             \A other \in Songs :
                 (Splittable(other) /\ SongKey(other) = SongKey(last.req)) => other = last.req

\* A title that starts with a pipe and an artist holding one came back whole.
C16_Witness ==
    /\ last.op = "split"
    /\ Splittable(last.req)
    /\ last.req.artist = <<124, 65>>
    /\ last.req.title = <<124, 124, 65>>
    /\ last.body = <<last.req.artist, last.req.title>>

\* C17: a restart of the server on its database file leaves every row of
\* song_ratings and user_ratings as it was, so getSongRatings gives each song
\* the counts from before the restart and a vote of a user on a song they voted
\* on before the restart is refused as a duplicate, whatever its ratingType.
C17_RowsSurviveRestart ==
    [][last'.op = "restart"
       => /\ song_ratings' = song_ratings
          /\ user_ratings' = user_ratings
          /\ \A k \in SongKeys :
                getSongRatings(song_ratings', k, "none") = getSongRatings(song_ratings, k, "none")
          /\ \A v \in history, r \in RatingTypes :
                addOrUpdateRating(song_ratings', user_ratings', v.song_key, "a1", "t1", r,
                                  v.user_id, "none").out = Returned([error |-> DuplicateVote])]_vars

\* The server was restarted on a file holding an up and a down vote on one song.
C17_Witness ==
    /\ last.op = "restart"
    /\ \E row \in song_ratings : row.thumbs_up = 1 /\ row.thumbs_down = 1
    /\ BagCardinality(user_ratings) >= 2

\* The number of vote records on song k with rating_type r.
TypedVoteRecords(ur, k, r) ==
    BagCardinality([x \in {y \in BagToSet(ur) : y.song_key = k /\ y.rating_type = r} |-> ur[x]])

\* C18: in every state reached through the three rating routes (restarts
\* included), each song's thumbs_up is the number of its vote records with
\* rating_type 'up' and its thumbs_down the number with 'down', a song without
\* a row counting as 0 and 0; and the song has a row exactly when it has at
\* least one vote record.
C18_CountsAreTheRecords ==
    \A k \in SongKeys :
        /\ Counts(song_ratings, k) = [thumbs_up |-> TypedVoteRecords(user_ratings, k, "up"),
                                      thumbs_down |-> TypedVoteRecords(user_ratings, k, "down")]
        /\ (\E row \in song_ratings : row.song_key = k) <=> SongVoteRecords(user_ratings, k) >= 1

\* One song has two up records, the other an up and a down record, and a vote
\* has just failed.
C18_Witness ==
    /\ TypedVoteRecords(user_ratings, "k1", "up") = 2
    /\ TypedVoteRecords(user_ratings, "k2", "up") = 1
    /\ TypedVoteRecords(user_ratings, "k2", "down") = 1
    /\ last.op = "POST ratings"
    /\ last.status = 400

\* The rows of the songs other than k.
OtherSongs(sr, k) == {row \in sr : row.song_key # k}

\* C19: a POST /api/ratings answered 200 for song k and user u leaves the rows
\* of every other song as they were, adds the record of (k, u) to user_ratings
\* and changes no other record, and a row k had before keeps its id, artist and
\* title, whatever artist and title the request carries; the two GET routes
\* change neither table.
C19_VoteTouchesOnlyItsSong ==
    [][/\ (last'.op = "POST ratings" /\ last'.status = 200)
          => /\ OtherSongs(song_ratings', last'.req.songKey) = OtherSongs(song_ratings, last'.req.songKey)
             /\ user_ratings' = user_ratings (+) SetToBag({Vote(last'.req)})
             /\ \A row \in song_ratings :
                   row.song_key = last'.req.songKey
                   => \E next \in song_ratings' :
                         /\ next.song_key = row.song_key
                         /\ next.id = row.id
                         /\ next.artist = row.artist
                         /\ next.title = row.title
       /\ last'.op \in {"GET ratings", "GET user rating"}
          => UNCHANGED <<song_ratings, user_ratings, history>>]_vars

\* A second vote on a song carried another artist than the first while the
\* other song had its row too: the row keeps the first artist.
C19_Witness ==
    /\ last.op = "POST ratings"
    /\ last.status = 200
    /\ \E row \in song_ratings :
          /\ row.song_key = last.req.songKey
          /\ row.artist # last.req.artist
          /\ row.thumbs_up + row.thumbs_down = 2
    /\ OtherSongs(song_ratings, last.req.songKey) # {}

\* C20: a POST /api/ratings with a field that is absent or present but empty is
\* answered 400 'Missing required fields' and changes nothing, the empty field
\* exactly like the absent one, and also when its ratingType is no 'up' or
\* 'down' at the same time: the missing field is what is reported.
C20_EmptyFieldIsMissing ==
    [][(/\ last'.op = "POST ratings"
        /\ \E f \in DOMAIN last'.req : last'.req[f] \in {"", Null})
       => RefusedUntouched(MissingFields)]_vars

\* A request with an empty field and the ratingType 'sideways' was refused for
\* the missing field, after votes had been recorded.
C20_Witness ==
    /\ last.op = "POST ratings"
    /\ \E f \in DOMAIN last.req : last.req[f] = ""
    /\ last.req.ratingType = "sideways"
    /\ last.status = 400
    /\ last.body = [error |-> MissingFields]
    /\ history # {}

====
